---- MODULE Spec2Model ----
(***************************************************************************)
(* Model of the recommendation engine of luna-backend                      *)
(* (src/src/routes/recommendation.js): calculateUserSimilarity,            *)
(* getRecommendations and the GET /api/recommendation route handler.       *)
(*                                                                         *)
(* JavaScript numbers are IEEE-754 binary64 values.  The similarity and    *)
(* the scores are computed with Math.sqrt, *, / and +=, each of which      *)
(* rounds to nearest (ties to even), so the model carries binary64 values  *)
(* exactly: a value is <<m, e>>, the number m * 2^e, with m a natural      *)
(* number of exactly MantBits bits held as a sequence of limbs; zero is    *)
(* <<<<>>, 0>>.  Only non-negative finite values arise in this program.    *)
(***************************************************************************)
EXTENDS Integers, Sequences, FiniteSets, TLC

Max2(a, b) == IF a >= b THEN a ELSE b
Min2(a, b) == IF a <= b THEN a ELSE b

(***************************************************************************)
(* Natural numbers of arbitrary size: little-endian sequences of limbs in  *)
(* radix Base, without high zero limbs (<<>> is 0).                        *)
(***************************************************************************)
Base == 2^15

Limb(x, i) == IF i <= Len(x) THEN x[i] ELSE 0

RECURSIVE NNorm(_)
NNorm(x) ==
  IF x = <<>> THEN x
  ELSE IF x[Len(x)] = 0 THEN NNorm(SubSeq(x, 1, Len(x) - 1))
  ELSE x

RECURSIVE NFromInt(_)
NFromInt(n) == IF n = 0 THEN <<>> ELSE <<n % Base>> \o NFromInt(n \div Base)

RECURSIVE NAddFrom(_, _, _, _)
NAddFrom(x, y, i, c) ==
  IF i > Max2(Len(x), Len(y))
  THEN (IF c = 0 THEN <<>> ELSE <<c>>)
  ELSE LET s == Limb(x, i) + Limb(y, i) + c
       IN  <<s % Base>> \o NAddFrom(x, y, i + 1, s \div Base)

NAdd(x, y) == NAddFrom(x, y, 1, 0)

\* x - y, for x >= y
RECURSIVE NSubFrom(_, _, _, _)
NSubFrom(x, y, i, b) ==
  IF i > Len(x) THEN <<>>
  ELSE LET d == x[i] - Limb(y, i) - b
       IN  IF d < 0 THEN <<d + Base>> \o NSubFrom(x, y, i + 1, 1)
           ELSE <<d>> \o NSubFrom(x, y, i + 1, 0)

NSub(x, y) == NNorm(NSubFrom(x, y, 1, 0))

\* -1, 0, 1 as x <, =, > y
RECURSIVE NCmpFrom(_, _, _)
NCmpFrom(x, y, i) ==
  IF i = 0 THEN 0
  ELSE IF x[i] < y[i] THEN -1
  ELSE IF x[i] > y[i] THEN 1
  ELSE NCmpFrom(x, y, i - 1)

NCmp(x, y) ==
  IF Len(x) < Len(y) THEN -1
  ELSE IF Len(x) > Len(y) THEN 1
  ELSE NCmpFrom(x, y, Len(x))

\* x * k for a single limb k
RECURSIVE NMulSmallFrom(_, _, _, _)
NMulSmallFrom(x, k, i, c) ==
  IF i > Len(x)
  THEN (IF c = 0 THEN <<>> ELSE <<c>>)
  ELSE LET p == x[i] * k + c
       IN  <<p % Base>> \o NMulSmallFrom(x, k, i + 1, p \div Base)

NMulSmall(x, k) == IF k = 0 THEN <<>> ELSE NMulSmallFrom(x, k, 1, 0)

NShlLimbs(x, n) == IF x = <<>> THEN x ELSE [i \in 1..n |-> 0] \o x

RECURSIVE NMulFrom(_, _, _)
NMulFrom(x, y, i) ==
  IF i > Len(x) THEN <<>>
  ELSE NAdd(NShlLimbs(NMulSmall(y, x[i]), i - 1), NMulFrom(x, y, i + 1))

NMul(x, y) == NMulFrom(x, y, 1)

\* x * 2^k
NShl(x, k) == NMulSmall(NShlLimbs(x, k \div 15), 2^(k % 15))

\* floor(x / d) for a single limb d > 0, from the high limb down
RECURSIVE NDivSmallFrom(_, _, _, _)
NDivSmallFrom(x, d, i, r) ==
  IF i = 0 THEN <<>>
  ELSE LET v == r * Base + x[i]
       IN  NDivSmallFrom(x, d, i - 1, v % d) \o <<v \div d>>

NDivSmall(x, d) == NNorm(NDivSmallFrom(x, d, Len(x), 0))

\* floor(x / 2^k)
NShr(x, k) ==
  IF k \div 15 >= Len(x) THEN <<>>
  ELSE NDivSmall(SubSeq(x, k \div 15 + 1, Len(x)), 2^(k % 15))

RECURSIVE IntBitLen(_)
IntBitLen(n) == IF n = 0 THEN 0 ELSE 1 + IntBitLen(n \div 2)

NBitLen(x) == IF x = <<>> THEN 0 ELSE 15 * (Len(x) - 1) + IntBitLen(x[Len(x)])

NIsOdd(x) == x # <<>> /\ x[1] % 2 = 1

\* the largest r with r * r <= n, its bits tried from bit i down onto acc
RECURSIVE NSqrtBits(_, _, _)
NSqrtBits(n, i, acc) ==
  IF i < 0 THEN acc
  ELSE IF NCmp(NMul(NAdd(acc, NShl(<<1>>, i)), NAdd(acc, NShl(<<1>>, i))), n) <= 0
       THEN NSqrtBits(n, i - 1, NAdd(acc, NShl(<<1>>, i)))
       ELSE NSqrtBits(n, i - 1, acc)

\* the largest q with q * d <= n, its bits tried from bit i down onto acc
RECURSIVE NDivBits(_, _, _, _)
NDivBits(n, d, i, acc) ==
  IF i < 0 THEN acc
  ELSE IF NCmp(NMul(NAdd(acc, NShl(<<1>>, i)), d), n) <= 0
       THEN NDivBits(n, d, i - 1, NAdd(acc, NShl(<<1>>, i)))
       ELSE NDivBits(n, d, i - 1, acc)

(***************************************************************************)
(* binary64 arithmetic, round to nearest, ties to even.                    *)
(***************************************************************************)
MantBits == 53
GuardBits == MantBits + 3

FZero == <<<<>>, 0>>
FIsZero(x) == x[1] = <<>>

\* the binary64 value nearest to (m + t) * 2^e, where 0 <= t < 1 and
\* t # 0 iff sticky (sticky only when m has more than MantBits bits)
FRound(m, e, sticky) ==
  IF m = <<>> THEN FZero
  ELSE LET L == NBitLen(m)
       IN  IF L <= MantBits
           THEN <<NShl(m, MantBits - L), e - (MantBits - L)>>
           ELSE LET k    == L - MantBits
                    q    == NShr(m, k)
                    rem  == NSub(m, NShl(q, k))
                    half == NShl(<<1>>, k - 1)
                    c    == NCmp(rem, half)
                    up   == c = 1 \/ (c = 0 /\ (sticky \/ NIsOdd(q)))
                    q1   == IF up THEN NAdd(q, <<1>>) ELSE q
                IN  IF NBitLen(q1) > MantBits
                    THEN <<NShr(q1, 1), e + k + 1>>
                    ELSE <<q1, e + k>>

FFromInt(n) == FRound(NFromInt(n), 0, FALSE)
FOne == FFromInt(1)

\* Math.sqrt(n) for an integer n >= 0: correctly rounded (IEEE-754)
FSqrt(n) ==
  IF n = 0 THEN FZero
  ELSE LET scaled == NShl(NFromInt(n), 2 * GuardBits)
           r == NSqrtBits(scaled, GuardBits + IntBitLen(n), <<>>)
       IN  FRound(r, -GuardBits, NMul(r, r) # scaled)

\* x * y
FMul(x, y) ==
  IF FIsZero(x) \/ FIsZero(y) THEN FZero
  ELSE FRound(NMul(x[1], y[1]), x[2] + y[2], FALSE)

\* x / y for y # 0
FDiv(x, y) ==
  IF FIsZero(x) THEN FZero
  ELSE LET scaled == NShl(x[1], GuardBits)
           q == NDivBits(scaled, y[1], GuardBits + 1, <<>>)
       IN  FRound(q, x[2] - y[2] - GuardBits, NMul(q, y[1]) # scaled)

\* x + y
FAdd(x, y) ==
  IF FIsZero(x) THEN y
  ELSE IF FIsZero(y) THEN x
  ELSE LET e == Min2(x[2], y[2])
       IN  FRound(NAdd(NShl(x[1], x[2] - e), NShl(y[1], y[2] - e)), e, FALSE)

\* -1, 0, 1 as x <, =, > y (the sign of x - y)
FCmp(x, y) ==
  IF FIsZero(x) THEN (IF FIsZero(y) THEN 0 ELSE -1)
  ELSE IF FIsZero(y) THEN 1
  ELSE IF x[2] < y[2] THEN -1
  ELSE IF x[2] > y[2] THEN 1
  ELSE NCmp(x[1], y[1])

FLess(x, y) == FCmp(x, y) < 0
FLeq(x, y) == FCmp(x, y) <= 0

(***************************************************************************)
(* Bounds of the model and constants of the program.                       *)
(***************************************************************************)
MaxLikes == 4      \* longest like-list of any store of the model
NumUsers == 3      \* users of the exhaustively enumerated small stores
NumPosts == 3      \* posts of the exhaustively enumerated small stores
WideUsers == 12    \* users of the wide stores (more than Top10 similar users)
WideShifts == 2    \* the wide stores are numbered 0..WideShifts
NumCalls == 2      \* request handlers in flight at the same time

Top10 == 10        \* userSimilarities.slice(0, 10)
Top20 == 20        \* recommendedBusinesses.slice(0, 20)

NoUser == 0        \* getAuth(req).userId when the request is not authenticated
Undefined == 0     \* a missing key of postBusinessMap

VARIABLES
  mockData,    \* the interaction store read by getRecommendations
  pc,          \* the route handler: "idle", "awaiting" (at the await), "done"
  reqUserId,   \* the handler's userId
  settled,     \* the promise returned by getRecommendations, as the await sees it
  locals,      \* the locals of getRecommendations when it returned
  responses,   \* what the handler sent with res.json, in order
  logged,      \* what the handler wrote with console.error, in order
  simArgs,     \* the arguments of a direct call of calculateUserSimilarity
  simResult,   \* and what that call returned
  calls,       \* the request handlers in flight together: position, userId, objects
  heap         \* the objects the invocations in flight created, by reference

vars == <<mockData, pc, reqUserId, settled, locals, responses, logged, simArgs, simResult,
          calls, heap>>

NoResult == <<>>

(***************************************************************************)
(* Array and Set helpers of the JavaScript runtime.                        *)
(***************************************************************************)
\* arr.includes(v)
Includes(arr, v) == \E i \in 1..Len(arr) : arr[i] = v

\* Array.from(new Set(arr)): the distinct elements, in insertion order
RECURSIVE Uniq(_)
Uniq(arr) ==
  IF arr = <<>> THEN <<>>
  ELSE LET r == Uniq(SubSeq(arr, 1, Len(arr) - 1))
       IN  IF Includes(r, arr[Len(arr)]) THEN r ELSE Append(r, arr[Len(arr)])

RECURSIVE SeqSum(_)
SeqSum(a) == IF a = <<>> THEN 0 ELSE a[1] + SeqSum(Tail(a))

\* Array.prototype.sort with the comparator (a, b) => b.key - a.key, on an
\* array of [key, item]: the sort is stable, so an element goes behind every
\* element whose key is not below its own
RECURSIVE InsertDesc(_, _, _)
InsertDesc(sorted, v, i) ==
  IF i > Len(sorted) THEN Append(sorted, v)
  ELSE IF FLess(sorted[i].key, v.key)
       THEN SubSeq(sorted, 1, i - 1) \o <<v>> \o SubSeq(sorted, i, Len(sorted))
       ELSE InsertDesc(sorted, v, i + 1)

RECURSIVE SortDesc(_)
SortDesc(arr) ==
  IF arr = <<>> THEN <<>>
  ELSE InsertDesc(SortDesc(SubSeq(arr, 1, Len(arr) - 1)), arr[Len(arr)], 1)

\* arr.slice(0, n)
Slice0(arr, n) == SubSeq(arr, 1, Min2(n, Len(arr)))

RECURSIVE Flatten(_)
Flatten(ss) == IF ss = <<>> THEN <<>> ELSE ss[1] \o Flatten(Tail(ss))

(***************************************************************************)
(* calculateUserSimilarity                                                 *)
(***************************************************************************)
\* Math.sqrt over the magnitudes that occur, evaluated once
MathSqrtTable == [n \in 0..MaxLikes |-> FSqrt(n)]

\* the user's magnitude taken twice in line 29
CosineUserMagnitudeTwice(dotProduct, userMagnitude, otherUserMagnitude) ==
  LET magnitude == FMul(MathSqrtTable[userMagnitude], MathSqrtTable[userMagnitude])
  IN  IF FIsZero(magnitude) THEN FZero
      ELSE FDiv(FFromInt(dotProduct), magnitude)

\* lines 29-32, from the three sums of the loop
Cosine(dotProduct, userMagnitude, otherUserMagnitude) ==
  LET magnitude == FMul(MathSqrtTable[userMagnitude], MathSqrtTable[otherUserMagnitude])
  IN  IF FIsZero(magnitude) THEN FZero
      ELSE FDiv(FFromInt(dotProduct), magnitude)

\* Cosine over the sums that occur, evaluated once
CosineTable ==
  [d \in 0..MaxLikes, a \in 0..MaxLikes, b \in 0..MaxLikes |->
     IF d <= a /\ d <= b THEN Cosine(d, a, b) ELSE FZero]

calculateUserSimilarity(userLikes, otherUserLikes) ==
  LET allPosts == Uniq(userLikes \o otherUserLikes)
      userVector ==
        [i \in 1..Len(allPosts) |-> IF Includes(userLikes, allPosts[i]) THEN 1 ELSE 0]
      otherUserVector ==
        [i \in 1..Len(allPosts) |-> IF Includes(otherUserLikes, allPosts[i]) THEN 1 ELSE 0]
      dotProduct ==
        SeqSum([i \in 1..Len(allPosts) |-> userVector[i] * otherUserVector[i]])
      userMagnitude ==
        SeqSum([i \in 1..Len(allPosts) |-> userVector[i] * userVector[i]])
      otherUserMagnitude ==
        SeqSum([i \in 1..Len(allPosts) |-> otherUserVector[i] * otherUserVector[i]])
  IN  IF Len(allPosts) = 0 THEN FZero
      ELSE CosineTable[dotProduct, userMagnitude, otherUserMagnitude]

(***************************************************************************)
(* getRecommendations.  mockData.userLikes is held as Object.entries gives *)
(* it: the sequence of [userId, likes] in insertion order; a business is   *)
(* held as its id, and the reason string as the number it embeds.          *)
(***************************************************************************)
\* mockData.userLikes[userId] || []
LikesOf(data, uid) ==
  LET at == {i \in 1..Len(data.userLikes) : data.userLikes[i].userId = uid}
  IN  IF at = {} THEN <<>> ELSE data.userLikes[CHOOSE i \in at : TRUE].likes

\* mockData.postBusinessMap[postId]
BusinessOf(data, postId) ==
  IF postId \in DOMAIN data.postBusinessMap THEN data.postBusinessMap[postId]
  ELSE Undefined

\* the check of line 76 left out
IsSelfNever(otherUserId, uid) == FALSE

\* line 76: if (otherUserId === userId) continue
IsSelf(otherUserId, uid) == otherUserId = uid

\* similarity >= 0 in line 79
IsRetainedNonNegative(similarity) == FLeq(FZero, similarity)

\* line 79: if (similarity > 0)
IsRetained(similarity) == FLess(FZero, similarity)

\* line 83 without the filter: currentUserLikes.length
SharedLikesUnfiltered(currentUserLikes, otherUserLikes) == Len(currentUserLikes)

\* line 83: currentUserLikes.filter(like => otherUserLikes.includes(like)).length
SharedLikes(currentUserLikes, otherUserLikes) ==
  Len(SelectSeq(currentUserLikes, LAMBDA like : Includes(otherUserLikes, like)))

\* lines 79-85: the push, for a similarity already computed
Retain(userSimilarities, otherUserId, similarity, sharedLikes) ==
  IF IsRetained(similarity)
  THEN Append(userSimilarities, [userId |-> otherUserId,
                                 similarity |-> similarity,
                                 sharedLikes |-> sharedLikes])
  ELSE userSimilarities

\* lines 74-86: the loop over the first n entries of mockData.userLikes
RECURSIVE SimilaritiesUpTo(_, _, _, _)
SimilaritiesUpTo(data, uid, currentUserLikes, n) ==
  IF n = 0 THEN <<>>
  ELSE IF IsSelf(data.userLikes[n].userId, uid)
       THEN SimilaritiesUpTo(data, uid, currentUserLikes, n - 1)
       ELSE Retain(SimilaritiesUpTo(data, uid, currentUserLikes, n - 1),
                   data.userLikes[n].userId,
                   calculateUserSimilarity(currentUserLikes, data.userLikes[n].likes),
                   SharedLikes(currentUserLikes, data.userLikes[n].likes))

\* the calls of calculateUserSimilarity the loop makes
SimilarityCalls(data, uid) ==
  Cardinality({i \in 1..Len(data.userLikes) : ~IsSelf(data.userLikes[i].userId, uid)})

\* the sort of line 88 left out
SortBySimilarityNone(userSimilarities) == userSimilarities

\* line 88: userSimilarities.sort((a, b) => b.similarity - a.similarity)
SortBySimilarity(userSimilarities) ==
  LET sorted == SortDesc([k \in 1..Len(userSimilarities) |->
                            [key |-> userSimilarities[k].similarity,
                             item |-> userSimilarities[k]]])
  IN  [k \in 1..Len(sorted) |-> sorted[k].item]

\* slice(0, 10) off by one
TopSimilarUsersOffByOne(sorted) == Slice0(sorted, Top10 + 1)

\* line 89
TopSimilarUsers(sorted) == Slice0(sorted, Top10)

\* the check of line 98 left out
IsCandidateAlways(currentUserLikes, postId) == TRUE

\* line 98: if (!currentUserLikes.includes(postId))
IsCandidate(currentUserLikes, postId) == ~Includes(currentUserLikes, postId)

\* lines 95-106: the additions the two loops make, in order, each as
\* [postId, userId, similarity]
Contributions(data, currentUserLikes, topSimilarUsers) ==
  Flatten([k \in 1..Len(topSimilarUsers) |->
    LET similarUser == topSimilarUsers[k]
        similarUserLikes == LikesOf(data, similarUser.userId)
        taken == SelectSeq(similarUserLikes, LAMBDA postId : IsCandidate(currentUserLikes, postId))
    IN  [j \in 1..Len(taken) |->
           [postId |-> taken[j], userId |-> similarUser.userId,
            similarity |-> similarUser.similarity]]])

\* postScores[postId] = similarity in line 103, for +=
RECURSIVE PostScoreAssigned(_, _, _)
PostScoreAssigned(contributions, postId, n) ==
  IF n = 0 THEN FZero
  ELSE IF contributions[n].postId = postId
       THEN contributions[n].similarity
       ELSE PostScoreAssigned(contributions, postId, n - 1)

\* postScores[postId] after the additions: 0, then += in order
RECURSIVE PostScore(_, _, _)
PostScore(contributions, postId, n) ==
  IF n = 0 THEN FZero
  ELSE IF contributions[n].postId = postId
       THEN FAdd(PostScore(contributions, postId, n - 1), contributions[n].similarity)
       ELSE PostScore(contributions, postId, n - 1)

\* businessScores[businessId].score = postScores[postId] in line 119, for +=
RECURSIVE BusinessScoreAssigned(_, _, _, _, _)
BusinessScoreAssigned(data, recommendedPostIds, postScores, businessId, n) ==
  IF n = 0 THEN FZero
  ELSE IF BusinessOf(data, recommendedPostIds[n]) = businessId
       THEN postScores[recommendedPostIds[n]]
       ELSE BusinessScoreAssigned(data, recommendedPostIds, postScores, businessId, n - 1)

\* businessScores[businessId].score after the loop of lines 109-122 over the
\* first n recommended posts
RECURSIVE BusinessScore(_, _, _, _, _)
BusinessScore(data, recommendedPostIds, postScores, businessId, n) ==
  IF n = 0 THEN FZero
  ELSE IF BusinessOf(data, recommendedPostIds[n]) = businessId
       THEN FAdd(BusinessScore(data, recommendedPostIds, postScores, businessId, n - 1),
                 postScores[recommendedPostIds[n]])
       ELSE BusinessScore(data, recommendedPostIds, postScores, businessId, n - 1)

\* lines 108-122: Object.values(businessScores), in insertion order
BusinessScores(data, recommendedPostIds, postScores) ==
  LET mapped == SelectSeq(recommendedPostIds,
                          LAMBDA postId : BusinessOf(data, postId) # Undefined)
      businessIds == Uniq([j \in 1..Len(mapped) |-> BusinessOf(data, mapped[j])])
  IN  [k \in 1..Len(businessIds) |->
         [business |-> businessIds[k],
          score |-> BusinessScore(data, recommendedPostIds, postScores,
                                  businessIds[k], Len(recommendedPostIds)),
          recommendedPosts |->
            SelectSeq(recommendedPostIds,
                      LAMBDA postId : BusinessOf(data, postId) = businessIds[k])]]

\* line 125: .sort((a, b) => b.score - a.score)
SortByScore(businessScores) ==
  LET sorted == SortDesc([k \in 1..Len(businessScores) |->
                            [key |-> businessScores[k].score,
                             item |-> businessScores[k]]])
  IN  [k \in 1..Len(sorted) |-> sorted[k].item]

\* lines 124-130
RecommendedBusinesses(businessScores) ==
  LET sorted == SortByScore(businessScores)
  IN  [k \in 1..Len(sorted) |->
         [business |-> sorted[k].business,
          recommendationScore |-> sorted[k].score,
          reason |-> Len(sorted[k].recommendedPosts)]]

\* the early return of line 65 left out
HasNoLikesNever(currentUserLikes) == FALSE

\* line 65: if (currentUserLikes.length === 0)
HasNoLikes(currentUserLikes) == Len(currentUserLikes) = 0

\* The locals of getRecommendations(userId), one step of the function after
\* the other: each step adds its local to the record l of the locals before it.
\* lines 74-88
WithUserSimilarities(data, uid, l) ==
  l @@ [similarityCalls |-> SimilarityCalls(data, uid),
        userSimilarities |->
          SortBySimilarity(SimilaritiesUpTo(data, uid, l.currentUserLikes,
                                            Len(data.userLikes)))]

\* line 89
WithTopSimilarUsers(l) ==
  l @@ [topSimilarUsers |-> TopSimilarUsers(l.userSimilarities)]

\* lines 92-106
WithContributions(data, l) ==
  l @@ [contributions |-> Contributions(data, l.currentUserLikes, l.topSimilarUsers)]

WithRecommendedPostIds(l) ==
  l @@ [recommendedPostIds |->
          Uniq([j \in 1..Len(l.contributions) |-> l.contributions[j].postId])]

WithPostScores(l) ==
  l @@ [postScores |->
          [postId \in {l.recommendedPostIds[j] : j \in 1..Len(l.recommendedPostIds)} |->
             PostScore(l.contributions, postId, Len(l.contributions))]]

\* lines 108-122
WithBusinessScores(data, l) ==
  l @@ [businessScores |-> BusinessScores(data, l.recommendedPostIds, l.postScores)]

\* lines 124-130
WithRecommendedBusinesses(l) ==
  l @@ [recommendedBusinesses |-> RecommendedBusinesses(l.businessScores)]

\* lines 63-71: the early return leaves the locals at currentUserLikes
FromCurrentUserLikes(data, uid, l) ==
  IF HasNoLikes(l.currentUserLikes) THEN l @@ [similarityCalls |-> 0]
  ELSE WithRecommendedBusinesses(
         WithBusinessScores(data,
           WithPostScores(
             WithRecommendedPostIds(
               WithContributions(data,
                 WithTopSimilarUsers(
                   WithUserSimilarities(data, uid, l)))))))

\* the locals of getRecommendations(userId) when it returns
getRecommendationsLocals(data, uid) ==
  FromCurrentUserLikes(data, uid, [currentUserLikes |-> LikesOf(data, uid)])

\* line 140 after the cut of line 89: topSimilarUsers.length
TotalSimilarUsersAfterCut(l) == Len(l.topSimilarUsers)

\* line 140: totalSimilarUsers: userSimilarities.length
TotalSimilarUsers(l) == Len(l.userSimilarities)

NoLikesMessage == "No likes found for user. Start liking posts to get recommendations!"

\* what getRecommendations(userId) returns, from its locals
ReturnValue(l) ==
  IF HasNoLikes(l.currentUserLikes)
  THEN [potentialFriends |-> <<>>,
        recommendedBusinesses |-> <<>>,
        message |-> NoLikesMessage]
  ELSE [potentialFriends |->
          [k \in 1..Len(l.topSimilarUsers) |->
             [userId |-> l.topSimilarUsers[k].userId,
              similarityScore |-> l.topSimilarUsers[k].similarity,
              sharedInterests |-> l.topSimilarUsers[k].sharedLikes]],
        recommendedBusinesses |-> Slice0(l.recommendedBusinesses, Top20),
        algorithm |-> "collaborative_filtering",
        totalSimilarUsers |-> TotalSimilarUsers(l)]

getRecommendations(data, uid) == ReturnValue(getRecommendationsLocals(data, uid))

(***************************************************************************)
(* The stores.  Fixture is the mockData of the source; the small stores    *)
(* are every like table of NumUsers users over NumPosts posts; the wide    *)
(* stores have more than Top10 similar users and more than Top20 scored    *)
(* businesses.  Users, posts and businesses are numbered: user_1 is 1.     *)
(***************************************************************************)
Fixture ==
  [userLikes |-> << [userId |-> 1, likes |-> <<1, 2, 3, 5>>],
                    [userId |-> 2, likes |-> <<2, 3, 4, 6>>],
                    [userId |-> 3, likes |-> <<1, 4, 7, 8>>],
                    [userId |-> 4, likes |-> <<2, 5, 6, 9>>] >>,
   postBusinessMap |-> <<1, 2, 1, 3, 2, 3, 4, 4, 5>>]

RECURSIVE Ascending(_)
Ascending(S) ==
  IF S = {} THEN <<>>
  ELSE LET m == CHOOSE v \in S : \A w \in S : w <= v
       IN  Append(Ascending(S \ {m}), m)

\* posts 1..NumPosts-1 belong to businesses, two posts each; the last post to none
SmallMap == [postId \in 1..(NumPosts - 1) |-> (postId + 1) \div 2]

SmallStores ==
  { [userLikes |-> [u \in 1..NumUsers |-> [userId |-> u, likes |-> Ascending(f[u])]],
     postBusinessMap |-> SmallMap] :
    f \in [1..NumUsers -> SUBSET (1..NumPosts)] }

\* every user likes post 1 and MaxLikes-2 or MaxLikes-1 posts of their own;
\* every post is the only post of its business
WideOwn(u, shift) == IF (u + shift) % 3 = 0 THEN MaxLikes - 2 ELSE MaxLikes - 1

WideStore(shift) ==
  [userLikes |->
     [u \in 1..WideUsers |->
        [userId |-> u,
         likes |-> <<1>> \o [j \in 1..WideOwn(u, shift) |-> 1 + (u - 1) * MaxLikes + j]]],
   postBusinessMap |-> [postId \in 1..(1 + WideUsers * MaxLikes) |-> postId]]

WideStores == {WideStore(shift) : shift \in 0..WideShifts}

Stores == {Fixture} \cup SmallStores \cup WideStores

KnownUserIds(data) == {data.userLikes[i].userId : i \in 1..Len(data.userLikes)}

\* the ids a verified session can carry: the users of the store and one more
SessionUserIds(data) == KnownUserIds(data) \cup {Len(data.userLikes) + 1}

\* the like-lists calculateUserSimilarity is called with directly
LikeArrays ==
  {a \in UNION {[1..n -> 1..MaxLikes] : n \in 0..MaxLikes} :
     \A i, j \in 1..Len(a) : i # j => a[i] # a[j]}

\* the errors a failing lookup throws: one with a message, one without
InternalError == "connect ECONNREFUSED 10.0.0.5:5432"
Errors == {[message |-> InternalError], [message |-> ""]}

(***************************************************************************)
(* router.get('/', requireAuth(), async (req, res) => ...)                 *)
(***************************************************************************)
Idle ==
  /\ pc = "idle"
  /\ reqUserId = NoUser
  /\ settled = [state |-> "none"]
  /\ locals = [similarityCalls |-> 0]
  /\ responses = <<>>
  /\ logged = <<>>

\* a handler that has not been entered
IdleCall == [pc |-> "idle", userId |-> NoUser, mockDataRef |-> 0, frameRef |-> 0,
             response |-> NoResult]

\* no handler of the concurrent requests has been entered
NoCalls ==
  /\ calls = [r \in 1..NumCalls |-> IdleCall]
  /\ heap = <<>>

Init ==
  /\ mockData \in Stores
  /\ Idle
  /\ simArgs = <<>>
  /\ simResult = NoResult
  /\ NoCalls

\* res.status(code).json(body)
Respond(code, body) == responses' = Append(responses, [status |-> code, body |-> body])

\* lines 208-215: no userId, 401
Unauthorized ==
  /\ pc = "idle"
  /\ reqUserId' = NoUser
  /\ Respond(401, [success |-> FALSE, message |-> "Unauthorized - user not authenticated"])
  /\ pc' = "done"
  /\ UNCHANGED <<mockData, settled, locals, logged, simArgs, simResult, calls, heap>>

\* lines 208-217: getRecommendations(userId) runs to its return (it has no
\* await of its own) and the handler waits on the fulfilled promise
CallGetRecommendations ==
  /\ pc = "idle"
  /\ \E uid \in SessionUserIds(mockData) :
       /\ reqUserId' = uid
       /\ locals' = getRecommendationsLocals(mockData, uid)
       /\ settled' = [state |-> "fulfilled", value |-> ReturnValue(locals')]
  /\ pc' = "awaiting"
  /\ UNCHANGED <<mockData, responses, logged, simArgs, simResult, calls, heap>>

\* lines 208-217: the lookup throws and the promise is rejected
GetRecommendationsThrows ==
  /\ pc = "idle"
  /\ \E uid \in SessionUserIds(mockData), error \in Errors :
       /\ reqUserId' = uid
       /\ settled' = [state |-> "rejected", reason |-> error]
  /\ pc' = "awaiting"
  /\ UNCHANGED <<mockData, locals, responses, logged, simArgs, simResult, calls, heap>>

\* lines 219-222: res.json({ success: true, ...recommendations })
SuccessBody(recommendations) == recommendations @@ [success |-> TRUE]

SendRecommendations ==
  /\ pc = "awaiting"
  /\ settled.state = "fulfilled"
  /\ Respond(200, SuccessBody(settled.value))
  /\ pc' = "done"
  /\ UNCHANGED <<mockData, reqUserId, settled, locals, logged, simArgs, simResult, calls, heap>>

\* line 227: error.message || 'Failed to get recommendations'
FailureMessage(error) ==
  IF error.message # "" THEN error.message ELSE "Failed to get recommendations"

\* lines 223-229: the catch block
CatchError ==
  /\ pc = "awaiting"
  /\ settled.state = "rejected"
  /\ logged' = Append(logged, settled.reason)
  /\ Respond(500, [success |-> FALSE, message |-> FailureMessage(settled.reason)])
  /\ pc' = "done"
  /\ UNCHANGED <<mockData, reqUserId, settled, locals, simArgs, simResult, calls, heap>>

Next ==
  \/ Unauthorized
  \/ CallGetRecommendations
  \/ GetRecommendationsThrows
  \/ SendRecommendations
  \/ CatchError

Spec == Init /\ [][Next]_vars

(***************************************************************************)
(* calculateUserSimilarity called directly on two like-lists.              *)
(***************************************************************************)
InitSim ==
  /\ mockData = Fixture
  /\ Idle
  /\ simArgs \in LikeArrays \X LikeArrays
  /\ simResult = NoResult
  /\ NoCalls

CallSimilarity ==
  /\ simResult = NoResult
  /\ simResult' = calculateUserSimilarity(simArgs[1], simArgs[2])
  /\ UNCHANGED <<mockData, pc, reqUserId, settled, locals, responses, logged, simArgs, calls, heap>>

NextSim == CallSimilarity

SpecSim == InitSim /\ [][NextSim]_vars

(***************************************************************************)
(* Request handlers in flight together.  A handler runs from its entry to  *)
(* the await of line 217 in one step (getRecommendations has no await of   *)
(* its own) and from the await to res.json in a second step; the steps of  *)
(* different handlers interleave freely.  Every invocation evaluates the   *)
(* object literal of lines 36-61 and the array and object literals of      *)
(* lines 74, 92, 93 and 108 anew: heap holds these objects by reference.   *)
(***************************************************************************)
\* the stores of the concurrent requests
ConcStores == {Fixture} \cup WideStores

\* an object or array literal that is evaluated creates a new object
NewObjectShared(h) == 1

NewObject(h) == Len(h) + 1

\* writing an object through its reference
Store(h, ref, content) ==
  IF ref > Len(h) THEN Append(h, content) ELSE [h EXCEPT ![ref] = content]

\* line 36: const mockData = { ... }
WithMockData(h) == Store(h, NewObject(h), mockData)

InitConc ==
  /\ mockData \in ConcStores
  /\ Idle
  /\ simArgs = <<>>
  /\ simResult = NoResult
  /\ NoCalls

\* lines 208-217 of handler r: getRecommendations(userId) creates its mockData
\* and its locals, reads the former, writes the latter and returns
ConcCall(r) ==
  /\ calls[r].pc = "idle"
  /\ \E uid \in SessionUserIds(mockData) :
       /\ heap' = Store(WithMockData(heap), NewObject(WithMockData(heap)),
                        getRecommendationsLocals(WithMockData(heap)[NewObject(heap)], uid))
       /\ calls' = [calls EXCEPT ![r] =
                      [pc |-> "awaiting", userId |-> uid,
                       mockDataRef |-> NewObject(heap),
                       frameRef |-> NewObject(WithMockData(heap)),
                       response |-> NoResult]]
  /\ UNCHANGED <<mockData, pc, reqUserId, settled, locals, responses, logged, simArgs, simResult>>

\* lines 219-222 of handler r: the continuation of the await reads what its
\* invocation returned and sends it
ConcSend(r) ==
  /\ calls[r].pc = "awaiting"
  /\ calls' = [calls EXCEPT ![r].pc = "done",
                            ![r].response = SuccessBody(ReturnValue(heap[calls[r].frameRef]))]
  /\ UNCHANGED <<mockData, pc, reqUserId, settled, locals, responses, logged, simArgs, simResult, heap>>

NextConc == \E r \in 1..NumCalls : ConcCall(r) \/ ConcSend(r)

SpecConc == InitConc /\ [][NextConc]_vars

(***************************************************************************)
(* Properties.                                                             *)
(***************************************************************************)
Fulfilled == settled.state = "fulfilled"
Returned == IF Fulfilled THEN settled.value ELSE [potentialFriends |-> <<>>, recommendedBusinesses |-> <<>>]
PastEarlyReturn == Fulfilled /\ "userSimilarities" \in DOMAIN locals

\* the locals.businessScores entry behind an entry of recommendedBusinesses
ScoredAs(entry) ==
  {k \in 1..Len(locals.businessScores) : locals.businessScores[k].business = entry.business}

\* C1: the requester's own id is never a userId of the returned
\* potentialFriends, and the requester is never one of the similar users whose
\* like-list adds to a post score.
C1_NoSelfRecommendation ==
  /\ \A k \in 1..Len(Returned.potentialFriends) :
       Returned.potentialFriends[k].userId # reqUserId
  /\ PastEarlyReturn =>
       /\ \A k \in 1..Len(locals.topSimilarUsers) :
            locals.topSimilarUsers[k].userId # reqUserId
       /\ \A k \in 1..Len(locals.contributions) :
            locals.contributions[k].userId # reqUserId

\* getRecommendations returned friends and scored posts for a known requester
\* whose own like-list overlaps itself (it is not empty)
C1_Witness ==
  /\ PastEarlyReturn
  /\ reqUserId \in KnownUserIds(mockData)
  /\ Len(Returned.potentialFriends) >= 2
  /\ Len(locals.contributions) >= 2

\* C2: no post of the requester's like-list has a post score, and every
\* contributing post of every returned business is outside that like-list.
C2_AlreadyLikedExcluded ==
  PastEarlyReturn =>
    /\ \A postId \in DOMAIN locals.postScores :
         ~Includes(locals.currentUserLikes, postId)
    /\ \A k \in 1..Len(Returned.recommendedBusinesses) :
         /\ ScoredAs(Returned.recommendedBusinesses[k]) # {}
         /\ \A b \in ScoredAs(Returned.recommendedBusinesses[k]) :
              \A j \in 1..Len(locals.businessScores[b].recommendedPosts) :
                ~Includes(locals.currentUserLikes,
                          locals.businessScores[b].recommendedPosts[j])

\* a business is returned while a top similar user also likes a post of the
\* requester that belongs to a business
C2_Witness ==
  /\ PastEarlyReturn
  /\ Len(Returned.recommendedBusinesses) >= 1
  /\ \E k \in 1..Len(locals.topSimilarUsers) :
       \E postId \in DOMAIN mockData.postBusinessMap :
         /\ Includes(LikesOf(mockData, locals.topSimilarUsers[k].userId), postId)
         /\ Includes(locals.currentUserLikes, postId)

\* C3: potentialFriends has at most 10 entries in non-increasing order of
\* similarityScore, and recommendedBusinesses at most 20 entries in
\* non-increasing order of recommendationScore.
C3_MonotonicTruncation ==
  /\ Len(Returned.potentialFriends) <= 10
  /\ \A k \in 1..(Len(Returned.potentialFriends) - 1) :
       FLeq(Returned.potentialFriends[k + 1].similarityScore,
            Returned.potentialFriends[k].similarityScore)
  /\ Len(Returned.recommendedBusinesses) <= 20
  /\ \A k \in 1..(Len(Returned.recommendedBusinesses) - 1) :
       FLeq(Returned.recommendedBusinesses[k + 1].recommendationScore,
            Returned.recommendedBusinesses[k].recommendationScore)

\* more than 10 similar users and more than 20 scored businesses, of unequal
\* similarities and scores, were cut to 10 and 20
C3_Witness ==
  /\ PastEarlyReturn
  /\ Len(locals.userSimilarities) > 10
  /\ Len(locals.businessScores) > 20
  /\ Len(Returned.potentialFriends) = 10
  /\ Len(Returned.recommendedBusinesses) = 20
  /\ FLess(Returned.potentialFriends[10].similarityScore,
           Returned.potentialFriends[1].similarityScore)
  /\ FLess(Returned.recommendedBusinesses[20].recommendationScore,
           Returned.recommendedBusinesses[1].recommendationScore)

C5_SimilaritySymmetric ==
  simResult # NoResult => simResult = calculateUserSimilarity(simArgs[2], simArgs[1])

\* a call on two overlapping like-lists of different lengths
C5_Witness ==
  /\ simResult # NoResult
  /\ Len(simArgs[1]) # Len(simArgs[2])
  /\ FLess(FZero, simResult)
  /\ FLess(simResult, FOne)

Elements(arr) == {arr[i] : i \in 1..Len(arr)}

\* C6: calculateUserSimilarity(A, B) lies in [0, 1], and is 1 exactly when A
\* and B hold the same posts and are not empty.
C6_BoundedAndOneIffIdentical ==
  simResult # NoResult =>
    /\ FLeq(FZero, simResult)
    /\ FLeq(simResult, FOne)
    /\ simResult = FOne <=>
         (Elements(simArgs[1]) = Elements(simArgs[2]) /\ simArgs[1] # <<>>)

\* the like-lists of the users i and j of the store share a post
Share(data, i, j) ==
  Elements(data.userLikes[i].likes) \cap Elements(data.userLikes[j].likes) # {}

\* C7: calculateUserSimilarity(A, B) is 0 exactly when A and B share no post
\* (which is so when either is empty), and the users getRecommendations
\* retains are exactly the other users sharing a post with the requester.
C7_ZeroIffDisjoint ==
  /\ \A i, j \in 1..Len(mockData.userLikes) :
       FIsZero(calculateUserSimilarity(mockData.userLikes[i].likes,
                                       mockData.userLikes[j].likes))
         <=> ~Share(mockData, i, j)
  /\ PastEarlyReturn =>
       {locals.userSimilarities[k].userId : k \in 1..Len(locals.userSimilarities)}
         = {mockData.userLikes[i].userId : i \in
              {i \in 1..Len(mockData.userLikes) :
                 /\ mockData.userLikes[i].userId # reqUserId
                 /\ Elements(mockData.userLikes[i].likes)
                      \cap Elements(locals.currentUserLikes) # {}}}

\* the requester retained a user and dropped another who has likes, none of
\* them a like of the requester
C7_Witness ==
  /\ PastEarlyReturn
  /\ Len(locals.userSimilarities) >= 1
  /\ \E j \in 1..Len(mockData.userLikes) :
       /\ mockData.userLikes[j].userId # reqUserId
       /\ mockData.userLikes[j].likes # <<>>
       /\ Elements(mockData.userLikes[j].likes) \cap Elements(locals.currentUserLikes) = {}

\* n / 2^k as a binary64 value
FDyadic(n, k) == FRound(NFromInt(n), -k, FALSE)

\* a and b differ by less than a tenth of either
ApproxEq(a, b) ==
  /\ FLeq(FMul(a, FFromInt(9)), FMul(b, FFromInt(10)))
  /\ FLeq(FMul(b, FFromInt(9)), FMul(a, FFromInt(10)))

OnFixtureForUser1 == Fulfilled /\ mockData = Fixture /\ reqUserId = 1

\* the place of user u in potentialFriends, 0 when absent
FriendAt(u) ==
  LET at == {k \in 1..Len(Returned.potentialFriends) :
               Returned.potentialFriends[k].userId = u}
  IN  IF at = {} THEN 0 ELSE CHOOSE k \in at : TRUE

\* the place of business b in recommendedBusinesses, 0 when absent
BusinessAt(b) ==
  LET at == {k \in 1..Len(Returned.recommendedBusinesses) :
               Returned.recommendedBusinesses[k].business = b}
  IN  IF at = {} THEN 0 ELSE CHOOSE k \in at : TRUE

\* C8 as stated: on the fixture, for user_1, user_2 is strictly above user_3
\* and user_4, and user_3 and user_4 are about equally similar.
C8_AsStated ==
  OnFixtureForUser1 =>
    /\ FriendAt(2) > 0 /\ FriendAt(3) > 0 /\ FriendAt(4) > 0
    /\ FLess(Returned.potentialFriends[FriendAt(3)].similarityScore,
             Returned.potentialFriends[FriendAt(2)].similarityScore)
    /\ FLess(Returned.potentialFriends[FriendAt(4)].similarityScore,
             Returned.potentialFriends[FriendAt(2)].similarityScore)
    /\ ApproxEq(Returned.potentialFriends[FriendAt(3)].similarityScore,
                Returned.potentialFriends[FriendAt(4)].similarityScore)

\* C8 amended: on the fixture, for user_1, potentialFriends is user_2, user_4,
\* user_3 in this order; user_2 and user_4 both have similarity 0.5 (two shared
\* likes each) and user_3 has 0.25 (one shared like).
C8_FixtureFriends ==
  OnFixtureForUser1 =>
    Returned.potentialFriends =
      << [userId |-> 2, similarityScore |-> FDyadic(1, 1), sharedInterests |-> 2],
         [userId |-> 4, similarityScore |-> FDyadic(1, 1), sharedInterests |-> 2],
         [userId |-> 3, similarityScore |-> FDyadic(1, 2), sharedInterests |-> 1] >>

\* the handler answered user_1 on the fixture with three friends
C8_Witness ==
  /\ OnFixtureForUser1
  /\ pc = "done"
  /\ Len(responses[1].body.potentialFriends) = 3

\* C9 as stated: on the fixture, for user_1, business_1 and business_2 are in
\* recommendedBusinesses above business_4 and business_5.
C9_AsStated ==
  OnFixtureForUser1 =>
    \A b \in {1, 2} :
      /\ BusinessAt(b) > 0
      /\ \A c \in {4, 5} : BusinessAt(c) > 0 => BusinessAt(b) < BusinessAt(c)

\* C9 amended: on the fixture, for user_1, recommendedBusinesses is business_3
\* (score 1.75, two posts), business_5 (0.5, one post), business_4 (0.5, two
\* posts) in this order; business_1 and business_2 are absent, user_1 liking
\* every post of theirs.
C9_FixtureBusinesses ==
  OnFixtureForUser1 =>
    Returned.recommendedBusinesses =
      << [business |-> 3, recommendationScore |-> FDyadic(7, 2), reason |-> 2],
         [business |-> 5, recommendationScore |-> FDyadic(1, 1), reason |-> 1],
         [business |-> 4, recommendationScore |-> FDyadic(1, 1), reason |-> 2] >>

\* getRecommendations returned to the handler for user_1 on the fixture, with
\* posts of business_1 and business_2 among user_1's likes
C9_Witness ==
  /\ OnFixtureForUser1
  /\ Len(locals.businessScores) = 3
  /\ \E postId \in Elements(locals.currentUserLikes) : BusinessOf(mockData, postId) \in {1, 2}

\* C10: when getRecommendations throws, the handler answers once, with status
\* 500, success = false and a message that is not the error's own text.
C10_OpaqueFailure ==
  (pc = "done" /\ settled.state = "rejected") =>
    /\ Len(responses) = 1
    /\ responses[1].status = 500
    /\ responses[1].body.success = FALSE
    /\ "message" \in DOMAIN responses[1].body
    /\ responses[1].body.message # settled.reason.message

\* what getRecommendations(userId) returns when it is the only invocation
RunAlone ==
  [data \in ConcStores |->
     [uid \in SessionUserIds(data) |-> getRecommendations(data, uid)]]

\* the handlers that have called getRecommendations
Called == {r \in 1..NumCalls : calls[r].pc # "idle"}

\* C11: under every interleaving of the handlers, each invocation returns and
\* each handler sends what getRecommendations returns for its userId when run
\* alone; the objects an invocation writes are read and written by no other
\* invocation; the like table and the post-to-business map of every
\* invocation are as the literal gives them; two invocations for the same
\* userId return the same.
C11_NoInterference ==
  /\ \A r \in Called :
       /\ ReturnValue(heap[calls[r].frameRef]) = RunAlone[mockData][calls[r].userId]
       /\ calls[r].pc = "done" =>
            calls[r].response = SuccessBody(RunAlone[mockData][calls[r].userId])
       /\ heap[calls[r].mockDataRef] = mockData
  /\ \A r, s \in Called :
       r # s =>
         /\ calls[r].frameRef \notin {calls[s].mockDataRef, calls[s].frameRef}
         /\ calls[r].userId = calls[s].userId =>
              ReturnValue(heap[calls[r].frameRef]) = ReturnValue(heap[calls[s].frameRef])

\* a second invocation for another user ran between the call and the
\* continuation of a first one, both with similar users, and both were sent
C11_Witness ==
  \E r, s \in Called :
    /\ calls[r].userId # calls[s].userId
    /\ calls[r].mockDataRef < calls[s].mockDataRef
    /\ calls[r].pc = "done" /\ calls[s].pc = "done"
    /\ calls[r].response.potentialFriends # <<>>
    /\ calls[s].response.potentialFriends # <<>>
    /\ calls[r].response # calls[s].response

\* The requester's likes and, for the k-th entry of the returned
\* potentialFriends, that user's likes and similarity to the requester.
RequesterLikes == LikesOf(mockData, reqUserId)
FriendLikes(k) == LikesOf(mockData, Returned.potentialFriends[k].userId)
FriendSimilarity(k) == calculateUserSimilarity(RequesterLikes, FriendLikes(k))

\* the items liked by a listed friend and not by the requester, each once
CandidateItems ==
  Uniq(Flatten([k \in 1..Len(Returned.potentialFriends) |->
                  SelectSeq(FriendLikes(k), LAMBDA item : ~Includes(RequesterLikes, item))]))

\* those of them that are mapped to entity b
ItemsOf(b) == SelectSeq(CandidateItems, LAMBDA item : BusinessOf(mockData, item) = b)

\* the listed friends who like the item
LikersOf(item) ==
  {k \in 1..Len(Returned.potentialFriends) : Includes(FriendLikes(k), item)}

\* the sum of the similarities of the first k listed friends who like the item
RECURSIVE ItemSum(_, _)
ItemSum(item, k) ==
  IF k = 0 THEN FZero
  ELSE IF k \in LikersOf(item)
       THEN FAdd(ItemSum(item, k - 1), FriendSimilarity(k))
       ELSE ItemSum(item, k - 1)

\* the sum of the item sums of the first n of the items
RECURSIVE EntitySum(_, _)
EntitySum(items, n) ==
  IF n = 0 THEN FZero
  ELSE FAdd(EntitySum(items, n - 1), ItemSum(items[n], Len(Returned.potentialFriends)))

\* C12: every entry of recommendedBusinesses is an entity (no entry for the
\* items without a mapping); its recommendationScore is the sum, over the
\* items mapped to it that a top-10 user likes and the requester does not, of
\* the similarities of the top-10 users who like the item, once per such user
\* (so users below the top 10 add nothing); the count of its reason is the
\* number of these items.
C12_ScoreIsSumOfContributions ==
  (Fulfilled /\ ~HasNoLikes(RequesterLikes)) =>
    \A k \in 1..Len(Returned.recommendedBusinesses) :
      /\ Returned.recommendedBusinesses[k].business # Undefined
      /\ Returned.recommendedBusinesses[k].recommendationScore =
           EntitySum(ItemsOf(Returned.recommendedBusinesses[k].business),
                     Len(ItemsOf(Returned.recommendedBusinesses[k].business)))
      /\ Returned.recommendedBusinesses[k].reason =
           Len(ItemsOf(Returned.recommendedBusinesses[k].business))

\* an entity was recommended for two items, one of them liked by two of the
\* listed friends, of unequal similarity
C12_Witness ==
  /\ pc = "done"
  /\ Fulfilled
  /\ \E k \in 1..Len(Returned.recommendedBusinesses) :
       /\ Returned.recommendedBusinesses[k].reason = 2
       /\ \E item \in Elements(ItemsOf(Returned.recommendedBusinesses[k].business)) :
            /\ LikersOf(item) = {1, 2}
            /\ FLess(FriendSimilarity(2), FriendSimilarity(1))

\* the users of the store, other than the requester, whose similarity to the
\* requester is above 0
SimilarOthers ==
  {i \in 1..Len(mockData.userLikes) :
     /\ mockData.userLikes[i].userId # reqUserId
     /\ FLess(FZero, calculateUserSimilarity(RequesterLikes, mockData.userLikes[i].likes))}

\* C13: on the non-empty path totalSimilarUsers is the number of users other
\* than the requester with similarity above 0, counted before the cut, and
\* potentialFriends has min(10, totalSimilarUsers) entries.
C13_TotalBeforeTruncation ==
  (Fulfilled /\ ~HasNoLikes(RequesterLikes)) =>
    /\ Returned.totalSimilarUsers = Cardinality(SimilarOthers)
    /\ Len(Returned.potentialFriends) =
         (IF Returned.totalSimilarUsers < 10 THEN Returned.totalSimilarUsers ELSE 10)

\* the handler sent a response whose totalSimilarUsers exceeds the length of
\* its potentialFriends
C13_Witness ==
  /\ pc = "done"
  /\ Fulfilled
  /\ ~HasNoLikes(RequesterLikes)
  /\ responses[1].body.totalSimilarUsers > 10
  /\ Len(responses[1].body.potentialFriends) = 10

\* C14: sharedInterests of every entry of potentialFriends is the number of
\* items that both the requester and that user like, and is at least 1.
C14_SharedInterestsIsIntersection ==
  Fulfilled =>
    \A k \in 1..Len(Returned.potentialFriends) :
      /\ Returned.potentialFriends[k].sharedInterests =
           Cardinality(Elements(RequesterLikes) \cap Elements(FriendLikes(k)))
      /\ Returned.potentialFriends[k].sharedInterests >= 1

\* a listed friend shares some but not all of the requester's likes, and
\* another listed friend shares a different number of them
C14_Witness ==
  /\ pc = "done"
  /\ Fulfilled
  /\ \E j, k \in 1..Len(Returned.potentialFriends) :
       /\ Returned.potentialFriends[j].sharedInterests < Len(RequesterLikes)
       /\ Returned.potentialFriends[j].sharedInterests
            < Returned.potentialFriends[k].sharedInterests

====
